---- MODULE Spec2Model ----
(***************************************************************************)
(* Asterisk AMI event logger (src/src/main.rs, src/src/settings.rs).       *)
(*                                                                         *)
(* One listener thread per configured server connects, checks the banner,  *)
(* logs in and then loops on read_ami, sending every frame that carries an *)
(* Event header over an mpsc channel.  The main thread sets up directories *)
(* and MySQL pools and then loops on the receiver: for each event it runs  *)
(* the matching event clauses (INSERT statements) and appends one line to  *)
(* the current (date-named) log file.                                      *)
(*                                                                         *)
(* A byte string is a sequence of tokens: a word, ":", " " or a line end.   *)
(* A server sends segments, each a byte string it writes at once; a socket *)
(* read returns one or more whole segments.                                *)
(***************************************************************************)
EXTENDS Integers, Sequences, FiniteSets

(***************************************************************************)
(* Bounds of the model.                                                    *)
(***************************************************************************)
\* frames that all servers together send after accepting a login
MaxFrames == 2
\* number of reads of a dead stream that the streaming loop is followed for
MaxSpin == 1
\* last UTC day of the run (days are 1..MaxDay)
MaxDay == 2
\* failures the environment causes in one run: a wrong greeting, a refused
\* login, a connection that ends, a directory, database or file operation
\* that fails (a refused connection is not counted: each listener connects
\* once)
MaxFaults == 1

(***************************************************************************)
(* Configuration (settings.rs): read-only after Settings::init.            *)
(***************************************************************************)
\* settings.servers: the names of the configured servers
Servers == {"serverA", "serverB"}

\* settings.databases: the DatabaseConnection entries, in file order
databases ==
    << [id |-> "db1", host |-> "h1"],
       [id |-> "db2", host |-> "h2"] >>

\* the reserved source field of line 279
SERVER_NAME == <<"%SERVER_NAME%">>

\* settings.event_clauses: EventClause entries in file order; event_data_link
\* is given here in the order the configuration file declares it
event_clauses ==
    << [event_name |-> <<"Dial">>, db_connection_id |-> "db1", db_table |-> "calls",
        event_data_link |-> << <<SERVER_NAME, "server_col">>,
                               <<<<"Channel">>, "chan_col">> >>],
       [event_name |-> <<"Dial">>, db_connection_id |-> "db2", db_table |-> "audit",
        event_data_link |-> << <<<<"Cause">>, "cause_col">> >>],
       [event_name |-> <<"hangup">>, db_connection_id |-> "db1", db_table |-> "ends",
        event_data_link |-> << <<<<"Event">>, "ev_col">> >>] >>

Rules == 1..Len(event_clauses)

(***************************************************************************)
(* Tokens and the frames a server may put on the wire.                     *)
(***************************************************************************)
CRLF == "\r\n"

\* the banner line of line 91, as tokens
Banner == <<"Asterisk Call Manager/1.1", CRLF>>

\* what a server may greet with: one segment
Greetings ==
    { <<Banner>>,
      << <<"Asterisk Call Manager/2.0", CRLF>> >>,
      << <<"Server", ":", "busy", CRLF>> >> }

\* the reply that accepts the login: the header line, then the blank line
LoginAccepted == << <<"Response", ":", " ", "Success", CRLF>>, <<CRLF>> >>

\* replies a server may give to the login action
LoginReplies ==
    { LoginAccepted,
      << <<"Response", ":", " ", "Error", CRLF, CRLF>> >>,
      << <<"Message", ":", "denied", CRLF, CRLF>> >> }

\* frames a server may send once a login is accepted, as segments
FrameDial ==
    << <<"Event", ":", " ", "Dial", CRLF>>, <<"Channel", ":", "SIP/100", CRLF, CRLF>> >>
FrameHangup == << <<"Event">>, <<":", "Hangup", CRLF, CRLF>> >>
FramePong == << <<"Response", ":", "Pong", CRLF, CRLF>> >>
FrameEmpty == << <<CRLF>> >>
Frames == {FrameDial, FrameHangup, FramePong, FrameEmpty}

\* the sequences of at most n frames
FrameScripts(n) == UNION {[1..k -> Frames] : k \in 0..n}

\* the concatenation of a sequence of sequences
RECURSIVE Flatten(_)
Flatten(x) == IF x = <<>> THEN <<>> ELSE Head(x) \o Flatten(Tail(x))

(***************************************************************************)
(* AMIResponse (lines 70-74) and the per-line work of read_ami.            *)
(***************************************************************************)
\* HashMap::new()
EmptyMap == [k \in {} |-> <<>>]

\* HashMap::insert: a later insert under the same key overwrites
MapInsert(h, k, v) == [x \in (DOMAIN h) \cup {k} |-> IF x = k THEN v ELSE h[x]]

\* the AMIResponse read_ami starts from (lines 17-20)
EmptyResponse == [headers |-> EmptyMap, rest |-> <<>>]

\* char::is_whitespace, on tokens
IsWhitespace(t) == t \in {" ", "\t", "\r\n", "\n"}

\* read_line returns after the first token that ends in '\n'
EndsLine(t) == t \in {"\r\n", "\n"}

RECURSIVE TrimStart(_)
TrimStart(x) ==
    IF x # <<>> /\ IsWhitespace(Head(x)) THEN TrimStart(Tail(x)) ELSE x

RECURSIVE TrimEnd(_)
TrimEnd(x) ==
    IF x # <<>> /\ IsWhitespace(x[Len(x)])
    THEN TrimEnd(SubSeq(x, 1, Len(x) - 1))
    ELSE x

\* str::trim
Trim(x) == TrimEnd(TrimStart(x))

\* line.contains(":")
ContainsColon(l) == \E i \in 1..Len(l) : l[i] = ":"

\* a variant that splits at the last ":" of the line
LastColon(l) ==
    CHOOSE i \in 1..Len(l) : l[i] = ":" /\ \A j \in (i + 1)..Len(l) : l[j] # ":"

\* position of the first ":" (splitn(2, ":") splits there)
FirstColon(l) ==
    CHOOSE i \in 1..Len(l) : l[i] = ":" /\ \A j \in 1..(i - 1) : l[j] # ":"

\* str::to_lowercase, on the tokens that names are made of
LowerCase(t) ==
    CASE t = "Event" -> "event"
      [] t = "Time" -> "time"
      [] t = "Response" -> "response"
      [] t = "%SERVER_NAME%" -> "%server_name%"
      [] OTHER -> t

\* a name in lower case
Fold(name) == [i \in 1..Len(name) |-> LowerCase(name[i])]

\* a variant of lines 40-52 that stores a header under its name in lower case
ProcessLineFolded(r, l) ==
    IF ContainsColon(l)
    THEN LET i == FirstColon(l)
             name == SubSeq(l, 1, i - 1)
             value == SubSeq(l, i + 1, Len(l))
         IN [r EXCEPT !.headers = MapInsert(@, Fold(Trim(name)), Trim(value))]
    ELSE [r EXCEPT !.rest = @ \o l]

\* lines 40-52: a line with a colon is a header, any other line goes to rest
ProcessLine(r, l) ==
    IF ContainsColon(l)
    THEN LET i == FirstColon(l)
             name == SubSeq(l, 1, i - 1)
             value == SubSeq(l, i + 1, Len(l))
         IN [r EXCEPT !.headers = MapInsert(@, Trim(name), Trim(value))]
    ELSE [r EXCEPT !.rest = @ \o l]

\* index of the first line end of a chunk, 0 when it has none
FirstLineEnd(c) ==
    IF \E i \in 1..Len(c) : EndsLine(c[i])
    THEN CHOOSE i \in 1..Len(c) : EndsLine(c[i]) /\ \A j \in 1..(i - 1) : ~EndsLine(c[j])
    ELSE 0

(***************************************************************************)
(* read_ami on the bytes one socket read put into its BufReader.  r and l  *)
(* are the response and the partial line so far, c the buffer content.     *)
(* The result says whether read_ami returned (done); if it did, the bytes  *)
(* still in the buffer (lost) go away with the BufReader (line 24: the     *)
(* reader is created per call and dropped at line 66).                     *)
(***************************************************************************)
RECURSIVE ReadBuffered(_, _, _, _)
ReadBuffered(r, l, c, first) ==
    LET i == FirstLineEnd(c)
    IN IF i = 0
       THEN [resp |-> r, line |-> l \o c, done |-> FALSE, lost |-> <<>>]
       ELSE LET full == l \o SubSeq(c, 1, i)
                more == SubSeq(c, i + 1, Len(c))
            IN IF full = <<CRLF>>
               THEN [resp |-> r, line |-> <<>>, done |-> TRUE, lost |-> more]
               ELSE IF first
               THEN [resp |-> ProcessLine(r, full), line |-> <<>>,
                     done |-> TRUE, lost |-> more]
               ELSE ReadBuffered(ProcessLine(r, full), <<>>, more, first)

\* read_ami when the read returns 0 bytes (lines 31-33): a partial line that
\* was already read is returned by read_line first and processed
ReadAtEof(r, l) == IF l = <<>> THEN r ELSE ProcessLine(r, l)

\* read_ami of a whole byte sequence followed by end of stream
ReadAll(c, first) ==
    LET b == ReadBuffered(EmptyResponse, <<>>, c, first)
    IN IF b.done THEN b.resp ELSE ReadAtEof(b.resp, b.line)

(***************************************************************************)
(* State.                                                                  *)
(***************************************************************************)
VARIABLES
    \* ---- settings, fixed when the configuration is loaded
    directory_per_server, \* settings.basic.directory_per_server
    linkOrder,            \* per event clause: iteration order of its event_data_link HashMap
    \* ---- per server: the listener thread and its connection
    pc,         \* where listener(server) is
    resp,       \* ami_response of the read_ami call in progress
    line,       \* the part of the current line read_line has read so far
    wire,       \* segments the server sends that no read has returned yet
    status,     \* the stream: "open", "eof" (peer closed) or "error"
    \* ---- the channel and the main thread
    bus,        \* messages in the mpsc channel, oldest first
    mainPc,     \* where main is
    panicCause, \* which unwrap() ended main, "" if none
    mysql_pool, \* ids that have a pool (keys of mysql_pool)
    files,      \* the files HashMap: key -> path of the open handle
    event_file_name, \* day of the current file name, 0 for ""
    today,      \* the UTC day of main's latest Utc::now()
    log,        \* every record appended to a log file, in append order
    dbLog,      \* every statement passed to conn.exec, in order
    \* ---- history
    emitted,    \* per server: the frames it sends after accepting the login
    recvd,      \* per server: non-empty responses read_ami returned in the loop
    fwd,        \* per server: the responses it sent on the channel
    hs,         \* per server: the handshake steps taken, with the responses read
    deadReads,  \* per server: reads of a dead stream made inside the loop
    consumed,   \* the messages receiver.recv() returned
    faults,     \* failures the environment has caused so far (refusals apart)
    \* ---- a function of the program applied on its own
    call,       \* the function and its arguments
    ret         \* <<>> until it returns, then <<what it returned>>

configVars == <<directory_per_server, linkOrder>>
sessVars == <<pc, resp, line, wire, status, emitted, recvd, fwd, hs, deadReads>>
mainVars == <<mainPc, panicCause, mysql_pool, files, event_file_name, today,
              log, dbLog, consumed>>
callVars == <<call, ret>>
vars == <<configVars, sessVars, bus, mainVars, faults, callVars>>

\* the environment may cause n more failures
MayFail(n) == faults + n <= MaxFaults

\* a process whose main thread returned or panicked is gone, threads and all
ProcessAlive == mainPc \notin {"Exited", "Panicked"}

RECURSIVE SumLen(_, _)
SumLen(f, S) ==
    IF S = {} THEN 0
    ELSE LET x == CHOOSE y \in S : TRUE IN Len(f[x]) + SumLen(f, S \ {x})

(***************************************************************************)
(* listener (lines 77-129).                                                *)
(***************************************************************************)
\* line 91: assert_eq!(first_response.rest, "Asterisk Call Manager/1.1\r\n")
BannerOk(r) == r.rest = Banner

\* a variant of lines 102-113 in which the None arm does not return
LoginOkIfPresent(r) ==
    <<"Response">> \in DOMAIN r.headers => r.headers[<<"Response">>] = <<"Success">>

\* lines 102-113: the Response header must be there and be "Success"
LoginOk(r) ==
    /\ <<"Response">> \in DOMAIN r.headers
    /\ r.headers[<<"Response">>] = <<"Success">>

\* a variant of lines 117-120 without the test of line 120
ForwardableAnyHeader(r) == Cardinality(DOMAIN r.headers) > 0

\* lines 117-120: at least one header, and an Event header
Forwardable(r) ==
    /\ Cardinality(DOMAIN r.headers) > 0
    /\ <<"Event">> \in DOMAIN r.headers

\* a channel that hands out the newest message first
ChannelSendFront(q, m) == <<m>> \o q

\* sender.send (line 121): the message goes to the back of the channel
ChannelSend(q, m) == Append(q, m)

\* a variant in which a listener that fails connects again
TerminateAndRetry(s) == pc' = [pc EXCEPT ![s] = "Connecting"]

\* a variant in which the end of one thread ends every listener thread
TerminateAll(s) == pc' = [t \in Servers |-> "Terminated"]

\* the thread of s ends (return at 83, 106, 111, or the panic of 91 and 94-97);
\* its stream is dropped with it, so what is on the wire is never read
TerminateSession(s) == pc' = [pc EXCEPT ![s] = "Terminated"]

\* an entry of hs: a step of lines 79-113 and the response it read, if any
HsStep(step, r) == [step |-> step, resp |-> r]

\* line 79: TcpStream::connect
Connect(s) ==
    /\ ProcessAlive
    /\ pc[s] = "Connecting"
    /\ \/ \* Err (lines 81-84); a listener connects once, so refusals need no
          \* budget: every listener may be refused
          /\ TerminateSession(s)
          /\ UNCHANGED <<wire, hs, faults>>
       \/ \E g \in Greetings :
             /\ g # <<Banner>> => MayFail(1)
             /\ faults' = IF g # <<Banner>> THEN faults + 1 ELSE faults
             /\ pc' = [pc EXCEPT ![s] = "ReadBanner"]
             /\ wire' = [wire EXCEPT ![s] = g]
             /\ hs' = [hs EXCEPT ![s] = Append(@, HsStep("connect", EmptyResponse))]
    /\ UNCHANGED <<configVars, callVars, resp, line, status, emitted, recvd, fwd,
                   deadReads, bus, mainVars>>

\* What listener does with the response r that read_ami returned, w being
\* what is left on the wire and dead telling that the stream had failed.
Continue(s, r, w, dead) ==
    /\ resp' = [resp EXCEPT ![s] = EmptyResponse]
    /\ line' = [line EXCEPT ![s] = <<>>]
    /\ CASE pc[s] = "ReadBanner" ->
              \* lines 87-97
              IF BannerOk(r) /\ status[s] # "error"
              THEN /\ pc' = [pc EXCEPT ![s] = "ReadLogin"]
                   /\ hs' = [hs EXCEPT ![s] =
                               @ \o <<HsStep("first_response", r),
                                       HsStep("login", EmptyResponse)>>]
                   /\ IF status[s] = "open"
                      THEN \E reply \in LoginReplies,
                              fr \in FrameScripts(MaxFrames - SumLen(emitted, Servers)) :
                              /\ reply # LoginAccepted => MayFail(1) /\ fr = <<>>
                              /\ faults' = IF reply # LoginAccepted
                                            THEN faults + 1 ELSE faults
                              /\ wire' = [wire EXCEPT ![s] = w \o reply \o Flatten(fr)]
                              /\ emitted' = [emitted EXCEPT ![s] = fr]
                      ELSE /\ wire' = [wire EXCEPT ![s] = w]
                           /\ UNCHANGED <<faults, emitted>>
                   /\ UNCHANGED <<recvd, fwd, bus, deadReads>>
              ELSE /\ TerminateSession(s)
                   /\ hs' = [hs EXCEPT ![s] = Append(@, HsStep("first_response", r))]
                   /\ wire' = [wire EXCEPT ![s] = <<>>]
                   /\ UNCHANGED <<recvd, fwd, bus, deadReads, faults, emitted>>
         [] pc[s] = "ReadLogin" ->
              \* lines 100-113
              /\ IF LoginOk(r)
                 THEN /\ pc' = [pc EXCEPT ![s] = "Streaming"]
                      /\ wire' = [wire EXCEPT ![s] = w]
                 ELSE /\ TerminateSession(s)
                      /\ wire' = [wire EXCEPT ![s] = <<>>]
              /\ hs' = [hs EXCEPT ![s] = Append(@, HsStep("login_response", r))]
              /\ UNCHANGED <<recvd, fwd, bus, deadReads, faults, emitted>>
         [] pc[s] = "Streaming" ->
              \* lines 115-128
              /\ recvd' = [recvd EXCEPT ![s] =
                             IF r = EmptyResponse THEN @ ELSE Append(@, r)]
              /\ IF Forwardable(r)
                 THEN /\ bus' = ChannelSend(bus, <<s, r>>)
                      /\ fwd' = [fwd EXCEPT ![s] = Append(@, r)]
                 ELSE UNCHANGED <<bus, fwd>>
              /\ deadReads' = [deadReads EXCEPT ![s] = IF dead THEN @ + 1 ELSE @]
              /\ wire' = [wire EXCEPT ![s] = w]
              /\ UNCHANGED <<pc, hs, faults, emitted>>

\* One socket read that returns data, and read_ami's work on the bytes it
\* returned.  The read returns one or more of the segments on the wire.
SessionRead(s) ==
    /\ ProcessAlive
    /\ pc[s] \in {"ReadBanner", "ReadLogin", "Streaming"}
    /\ \E k \in 1..Len(wire[s]) :
          LET b == ReadBuffered(resp[s], line[s], Flatten(SubSeq(wire[s], 1, k)),
                                pc[s] = "ReadBanner")
              w == SubSeq(wire[s], k + 1, Len(wire[s]))
          IN IF b.done
             THEN Continue(s, b.resp, w, FALSE)
             ELSE /\ resp' = [resp EXCEPT ![s] = b.resp]
                  /\ line' = [line EXCEPT ![s] = b.line]
                  /\ wire' = [wire EXCEPT ![s] = w]
                  /\ UNCHANGED <<pc, hs, recvd, fwd, bus, deadReads, faults,
                                 emitted>>
    /\ UNCHANGED <<configVars, callVars, status, mainVars>>

\* A socket read on a stream that has failed: 0 bytes at end of stream
\* (lines 31-33) or an error (lines 59-62).  read_ami returns what it has.
SessionReadDead(s) ==
    /\ ProcessAlive
    /\ pc[s] \in {"ReadBanner", "ReadLogin", "Streaming"}
    /\ wire[s] = <<>>
    /\ status[s] \in {"eof", "error"}
    /\ pc[s] = "Streaming" => deadReads[s] < MaxSpin
    /\ Continue(s, IF status[s] = "eof" THEN ReadAtEof(resp[s], line[s]) ELSE resp[s],
                <<>>, TRUE)
    /\ UNCHANGED <<configVars, callVars, status, mainVars>>

(***************************************************************************)
(* The servers (environment).  The greeting, the reply to the login and    *)
(* the frames that follow are put on the wire when the session connects    *)
(* and logs in: a read returns any prefix of the wire, which covers every  *)
(* timing of the server's sends.                                           *)
(***************************************************************************)
\* The connection ends: the peer closes it, with or without its last segment
\* sent (what it sent can still be read), or the connection breaks (what was
\* not read is gone).
ServerClose(s) ==
    /\ ProcessAlive
    /\ pc[s] \in {"ReadBanner", "ReadLogin", "Streaming"}
    /\ status[s] = "open"
    /\ MayFail(1)
    /\ faults' = faults + 1
    /\ \/ /\ status' = [status EXCEPT ![s] = "eof"]
          /\ \E k \in {Len(wire[s]) - 1, Len(wire[s])} \cap Nat :
                wire' = [wire EXCEPT ![s] = SubSeq(@, 1, k)]
       \/ /\ status' = [status EXCEPT ![s] = "error"]
          /\ wire' = [wire EXCEPT ![s] = <<>>]
    /\ UNCHANGED <<configVars, callVars, pc, resp, line, emitted, recvd, fwd, hs,
                   deadReads, bus, mainVars>>

(***************************************************************************)
(* main: set-up (lines 186-248).                                           *)
(***************************************************************************)
\* settings.basic.target_directory, after the trailing "/" is cut (162-164)
target_directory == "events"

\* Lines 199-229 over databases[i..]: pools holds the keys of mysql_pool so
\* far, up the ids of the databases that Opts::from_url and Pool::new accept.
\* The duplicate test of line 203 looks the host up among the keys.
RECURSIVE OpenPools(_, _, _)
OpenPools(i, pools, up) ==
    IF i > Len(databases) THEN [pools |-> pools, exit |-> FALSE]
    ELSE IF databases[i].host \in pools THEN [pools |-> pools, exit |-> TRUE]
    ELSE IF databases[i].id \in up
         THEN OpenPools(i + 1, pools \cup {databases[i].id}, up)
         ELSE OpenPools(i + 1, pools, up)

\* The same lines over any list dbs of DatabaseConnection entries, keeping
\* for each key of mysql_pool the entry whose pool it holds: pools maps the
\* key to the index of that entry (HashMap::insert replaces, line 226).
RECURSIVE OpenPoolsOf(_, _, _, _)
OpenPoolsOf(dbs, i, pools, up) ==
    IF i > Len(dbs) THEN [pools |-> pools, exit |-> FALSE]
    ELSE IF dbs[i].host \in DOMAIN pools THEN [pools |-> pools, exit |-> TRUE]
    ELSE IF dbs[i].id \in up
         THEN OpenPoolsOf(dbs, i + 1, MapInsert(pools, dbs[i].id, i), up)
         ELSE OpenPoolsOf(dbs, i + 1, pools, up)

\* a variant in which main goes on after an unwrap() that failed
AfterUnwrapIgnored(panic) == "Loop"

\* Result::unwrap and Option::unwrap in main (lines 193, 239, 264, 303, 327,
\* 332, 340, 342, 356 and 146 in open_file): main panics on Err or None;
\* panic names the unwrap that failed, "" when none did
AfterUnwrap(panic) == IF panic = "" THEN "Loop" ELSE "Panicked"

DatabaseIds == {databases[i].id : i \in 1..Len(databases)}

MainSetup ==
    /\ mainPc = "Setup"
    /\ \E dirsOk \in BOOLEAN, up \in SUBSET DatabaseIds :
          LET o == OpenPools(1, {}, up)
              nf == IF dirsOk THEN Cardinality(DatabaseIds \ up) ELSE 1
          IN /\ MayFail(nf)
             /\ ~dirsOk => up = DatabaseIds
             /\ faults' = faults + nf
             /\ IF Len(target_directory) = 0
                THEN \* line 188-190
                     /\ mainPc' = "Exited"
                     /\ UNCHANGED <<panicCause, mysql_pool>>
                ELSE IF ~dirsOk
                THEN \* create_dir_all(..).unwrap() of line 193 or 239
                     /\ mainPc' = AfterUnwrap("create_dir_all")
                     /\ panicCause' = "create_dir_all"
                     /\ UNCHANGED mysql_pool
                ELSE IF o.exit
                THEN \* line 205
                     /\ mainPc' = "Exited"
                     /\ mysql_pool' = o.pools
                     /\ UNCHANGED panicCause
                ELSE /\ mainPc' = AfterUnwrap("")
                     /\ mysql_pool' = o.pools
                     /\ UNCHANGED panicCause
    /\ UNCHANGED <<configVars, callVars, sessVars, bus, files, event_file_name, today,
                   log, dbLog, consumed>>

(***************************************************************************)
(* main: the event clauses (lines 261-315).                                *)
(***************************************************************************)
\* mysql::Value
SqlBytes(x) == <<"Bytes", x>>
SqlNull == <<"NULL">>

\* line 262: the clause's event_name against the Event header
Matches(c, m) == c.event_name = m.headers[<<"Event">>]

\* a variant of lines 274-287 that binds an empty string for a missing header
ResolveValueEmptyString(key, m, server_name) ==
    IF key \in DOMAIN m.headers
    THEN SqlBytes(m.headers[key])
    ELSE IF key = SERVER_NAME
         THEN SqlBytes(<<server_name>>)
         ELSE SqlBytes(<<>>)

\* lines 274-287: the value bound for one source field
ResolveValue(key, m, server_name) ==
    IF key \in DOMAIN m.headers
    THEN SqlBytes(m.headers[key])
    ELSE IF key = SERVER_NAME
         THEN SqlBytes(<<server_name>>)
         ELSE SqlNull

\* Vec::join(",")
RECURSIVE Join(_)
Join(x) ==
    IF Len(x) <= 1 THEN x ELSE <<Head(x), ",">> \o Join(Tail(x))

\* a variant of lines 293-300 with a single placeholder
SqlTextOnePlaceholder(table, columns) ==
    <<"INSERT INTO ", table, " (">> \o Join(columns) \o <<") VALUES (">>
        \o <<"?">> \o <<")">>

\* lines 293-300: the statement text
SqlText(table, columns) ==
    <<"INSERT INTO ", table, " (">> \o Join(columns) \o <<") VALUES (">>
        \o Join([k \in 1..Len(columns) |-> "?"]) \o <<")">>

\* lines 269-290: the columns and values, in the iteration order of the map
BuildColumns(link) == [k \in 1..Len(link) |-> link[k][2]]

BuildValues(link, m, server_name) ==
    [k \in 1..Len(link) |-> ResolveValue(link[k][1], m, server_name)]

\* The loop of lines 261-315 from clause i on, for message m of server_name,
\* the n-th message received.  oc gives, for each matching clause, what the
\* database does: "ok", "exec_err" (conn.exec fails), "conn_err"
\* (pool.get_conn fails).  Yields the statements executed and the unwrap()
\* that panicked, "" when none did.
RECURSIVE RunClauses(_, _, _, _, _, _)
RunClauses(i, m, server_name, n, oc, acc) ==
    IF i > Len(event_clauses) THEN [execs |-> acc, panic |-> ""]
    ELSE IF <<"Event">> \notin DOMAIN m.headers
    THEN [execs |-> acc, panic |-> "no_event"]
    ELSE IF ~Matches(event_clauses[i], m)
    THEN RunClauses(i + 1, m, server_name, n, oc, acc)
    ELSE IF event_clauses[i].db_connection_id \notin mysql_pool
    THEN [execs |-> acc, panic |-> "no_pool"]
    ELSE IF oc[i] = "conn_err"
    THEN [execs |-> acc, panic |-> "get_conn"]
    ELSE RunClauses(i + 1, m, server_name, n, oc,
            Append(acc, [ev |-> n, clause |-> i,
                         db |-> event_clauses[i].db_connection_id,
                         columns |-> BuildColumns(linkOrder[i]),
                         sql |-> SqlText(event_clauses[i].db_table,
                                         BuildColumns(linkOrder[i])),
                         values |-> BuildValues(linkOrder[i], m, server_name),
                         ok |-> oc[i] = "ok"]))

MatchingClauses(m) ==
    IF <<"Event">> \in DOMAIN m.headers
    THEN {i \in Rules : Matches(event_clauses[i], m)}
    ELSE {}

(***************************************************************************)
(* main: the log files (lines 317-356).                                    *)
(***************************************************************************)
\* get_current_file_name on day d: "events_<d>.log"
FileName(d) == d

\* the key of the handle an event of server_name is written through (339-343)
FileKey(server_name) == IF directory_per_server THEN server_name ELSE "all"

\* a variant of lines 324-335 that opens a handle only where the map has none
ReopenMissing(f) ==
    IF directory_per_server
    THEN [k \in (DOMAIN files) \cup Servers |->
            IF k \in DOMAIN files THEN files[k] ELSE <<target_directory, k, f>>]
    ELSE [k \in (DOMAIN files) \cup {"all"} |->
            IF k \in DOMAIN files THEN files[k] ELSE <<target_directory, f>>]

\* lines 324-335: the handles opened at a rotation to file name f
Reopen(f) ==
    IF directory_per_server
    THEN [k \in (DOMAIN files) \cup Servers |->
            IF k \in Servers THEN <<target_directory, k, f>> ELSE files[k]]
    ELSE [k \in (DOMAIN files) \cup {"all"} |->
            IF k = "all" THEN <<target_directory, f>> ELSE files[k]]

\* receiver.recv(): the oldest message of the channel
ChannelRecv(q) == Head(q)

\* a variant in which main keeps no sender of its own
SendersOfThreads == {s \in Servers : pc[s] # "Terminated"}

\* The Sender handles of the channel that are alive: sender (line 172), which
\* main never drops or moves before it returns, and for each listener thread
\* the clone it was given (lines 178-183), dropped when the thread ends.
Senders == {"main"} \cup {s \in Servers : pc[s] # "Terminated"}

\* receiver.recv() returns Err (lines 253-256): nothing is in the channel and
\* every sender is gone
Disconnected == bus = <<>> /\ Senders = {}

\* the thread of s panicked (lines 91 and 94-97): its join() returns Err
ThreadPanicked(s) ==
    /\ pc[s] = "Terminated"
    /\ Len(hs[s]) = 2
    /\ hs[s][2].step = "first_response"

\* Lines 253-256 and 359-362: recv returned Err, main breaks out of the loop
\* and joins the threads, which have all ended; join().unwrap() panics for a
\* thread that panicked, otherwise main returns.
RecvErr ==
    /\ Disconnected
    /\ IF \E s \in Servers : ThreadPanicked(s)
       THEN mainPc' = "Panicked" /\ panicCause' = "join"
       ELSE mainPc' = "Exited" /\ UNCHANGED panicCause
    /\ UNCHANGED <<bus, faults, files, event_file_name, today, log, dbLog,
                   consumed>>

\* One turn of the loop of lines 250-357.  With nothing in the channel recv
\* blocks until a message is sent or the channel is disconnected.
Aggregate ==
    /\ mainPc = "Loop"
    /\ IF bus = <<>> THEN RecvErr ELSE
       LET server_name == ChannelRecv(bus)[1]
           m == ChannelRecv(bus)[2]
           n == Len(consumed) + 1
       IN \E oc \in [MatchingClauses(m) -> {"ok", "exec_err", "conn_err"}],
             d1 \in {d \in {today, today + 1} : d <= MaxDay},
             fs \in {"ok", "open_fail", "write_fail"} :
          \E d2 \in {d \in {d1, d1 + 1} : d <= MaxDay} :
             LET rr == RunClauses(1, m, server_name, n, oc, <<>>)
                 \* d1 is the day at line 320, d2 the day at line 321
                 rotate == event_file_name # FileName(d1)
                 nf == Cardinality({i \in DOMAIN oc : oc[i] # "ok"})
                         + (IF fs = "ok" THEN 0 ELSE 1)
                 fs2 == IF rotate THEN Reopen(FileName(d2)) ELSE files
                 key == FileKey(server_name)
                 panic == IF rr.panic # "" THEN rr.panic
                          ELSE IF rotate /\ fs = "open_fail" THEN "open_file"
                          ELSE IF key \notin DOMAIN fs2 THEN "no_file"
                          ELSE IF fs = "write_fail" THEN "write_all"
                          ELSE ""
             IN /\ MayFail(nf)
                /\ faults' = faults + nf
                /\ bus' = Tail(bus)
                /\ consumed' = Append(consumed, <<server_name, m>>)
                /\ dbLog' = dbLog \o rr.execs
                /\ mainPc' = AfterUnwrap(panic)
                /\ panicCause' = panic
                /\ IF rr.panic # ""
                   THEN UNCHANGED <<event_file_name, files, today, log>>
                   ELSE /\ today' = IF rotate THEN d2 ELSE d1
                        /\ event_file_name' = IF rotate THEN FileName(d2)
                                              ELSE event_file_name
                        /\ files' = IF rotate /\ fs # "open_fail" THEN fs2 ELSE files
                        /\ log' = IF panic = ""
                                  THEN Append(log, [ev |-> n, path |-> fs2[key],
                                                    day |-> d1,
                                                    server |-> server_name,
                                                    msg |-> m])
                                  ELSE log
    /\ UNCHANGED <<configVars, callVars, sessVars, mysql_pool>>

(***************************************************************************)
(* The system.                                                             *)
(***************************************************************************)
\* no function is applied on its own while the program runs
NoCall == [fn |-> "", arg |-> <<>>]

\* the orders in which a HashMap holding the pairs of x may iterate
IterationOrders(x) ==
    {p \in [1..Len(x) -> {x[k] : k \in 1..Len(x)}] :
        \A a, b \in 1..Len(x) : a # b => p[a] # p[b]}

\* Settings are loaded, the threads are spawned (lines 150-184); nothing is
\* connected, opened or written yet.
Init ==
    /\ directory_per_server \in BOOLEAN
    /\ linkOrder \in {o \in [Rules -> UNION {IterationOrders(event_clauses[i].event_data_link) : i \in Rules}] :
                        \A i \in Rules : o[i] \in IterationOrders(event_clauses[i].event_data_link)}
    /\ pc = [s \in Servers |-> "Connecting"]
    /\ resp = [s \in Servers |-> EmptyResponse]
    /\ line = [s \in Servers |-> <<>>]
    /\ wire = [s \in Servers |-> <<>>]
    /\ status = [s \in Servers |-> "open"]
    /\ bus = <<>>
    /\ mainPc = "Setup"
    /\ panicCause = ""
    /\ mysql_pool = {}
    /\ files = EmptyMap
    /\ event_file_name = 0
    /\ today = 1
    /\ log = <<>>
    /\ dbLog = <<>>
    /\ emitted = [s \in Servers |-> <<>>]
    /\ recvd = [s \in Servers |-> <<>>]
    /\ fwd = [s \in Servers |-> <<>>]
    /\ hs = [s \in Servers |-> <<>>]
    /\ deadReads = [s \in Servers |-> 0]
    /\ consumed = <<>>
    /\ faults = 0
    /\ call = NoCall
    /\ ret = <<>>

Next ==
    \/ \E s \in Servers : Connect(s)
    \/ \E s \in Servers : SessionRead(s)
    \/ \E s \in Servers : SessionReadDead(s)
    \/ \E s \in Servers : ServerClose(s)
    \/ MainSetup
    \/ Aggregate

Spec == Init /\ [][Next]_vars

(***************************************************************************)
(* read_ami, the resolution of a value (lines 274-287) and the opening of  *)
(* the pools (lines 199-229) applied on their own, to arguments drawn from *)
(* bounded sets.  The program itself does not run in SpecCalls.            *)
(***************************************************************************)
\* lines of a frame before its blank line, at most
MaxLines == 3
\* DatabaseConnection entries of a configuration, at most
MaxDbs == 2

\* lines a server may send: names in several spellings, with blanks around
\* name and value, a value with a colon, lines without a colon, and a header
\* named like the reserved source field
LineEvent == <<"Event", ":", " ", "Dial", CRLF>>
LineLower == <<"event", ":", "Hangup", CRLF>>
LinePadded == <<" ", "Event", " ", ":", " ", "Hangup", " ", CRLF>>
LineTime == <<"Time", ":", "12", ":", "30", CRLF>>
LineText == <<"free text", CRLF>>
LineBare == <<"more", "\n">>
LineToken == <<"%SERVER_NAME%", ":", "other", CRLF>>
Lines == {LineEvent, LineLower, LinePadded, LineTime, LineText, LineBare, LineToken}

\* the sequences of at most MaxLines lines
LineSeqs == UNION {[1..k -> Lines] : k \in 0..MaxLines}

\* the bytes of a frame with these lines: the lines, then the blank line
FrameBytes(ls) == Flatten(ls) \o <<CRLF>>

\* source fields an event clause may link
LinkKeys == {SERVER_NAME, <<"Event">>, <<"Channel">>}

\* DatabaseConnection entries: a host may be spelled like another entry's id
DbEntries == [id : {"db1", "db2"}, host : {"h1", "h2", "db1"}]

\* the configurations of at most MaxDbs entries
DbLists == UNION {[1..k -> DbEntries] : k \in 0..MaxDbs}

\* read_ami(stream, false) on a stream holding a frame, and what follows it
CallReadAmi ==
    /\ call.fn = "read_ami"
    /\ ret = <<>>
    /\ ret' = <<ReadAll(FrameBytes(call.arg.lines) \o call.arg.tail, FALSE)>>
    /\ UNCHANGED <<configVars, sessVars, bus, mainVars, faults, call>>

\* lines 274-287 for one entry of event_data_link, on the message read_ami
\* returns for a frame
CallResolveValue ==
    /\ call.fn = "ResolveValue"
    /\ ret = <<>>
    /\ ret' = <<ResolveValue(call.arg.key,
                             ReadAll(FrameBytes(call.arg.lines), FALSE),
                             call.arg.server_name)>>
    /\ UNCHANGED <<configVars, sessVars, bus, mainVars, faults, call>>

\* lines 199-229 on a list of databases; up holds the ids that can be opened
CallOpenPools ==
    /\ call.fn = "OpenPools"
    /\ ret = <<>>
    /\ ret' = <<OpenPoolsOf(call.arg.dbs, 1, EmptyMap, call.arg.up)>>
    /\ UNCHANGED <<configVars, sessVars, bus, mainVars, faults, call>>

InitCalls ==
    /\ directory_per_server = FALSE
    /\ linkOrder = [i \in Rules |-> event_clauses[i].event_data_link]
    /\ pc = [s \in Servers |-> "Connecting"]
    /\ resp = [s \in Servers |-> EmptyResponse]
    /\ line = [s \in Servers |-> <<>>]
    /\ wire = [s \in Servers |-> <<>>]
    /\ status = [s \in Servers |-> "open"]
    /\ bus = <<>>
    /\ mainPc = "Setup"
    /\ panicCause = ""
    /\ mysql_pool = {}
    /\ files = EmptyMap
    /\ event_file_name = 0
    /\ today = 1
    /\ log = <<>>
    /\ dbLog = <<>>
    /\ emitted = [s \in Servers |-> <<>>]
    /\ recvd = [s \in Servers |-> <<>>]
    /\ fwd = [s \in Servers |-> <<>>]
    /\ hs = [s \in Servers |-> <<>>]
    /\ deadReads = [s \in Servers |-> 0]
    /\ consumed = <<>>
    /\ faults = 0
    /\ ret = <<>>
    /\ \/ \E ls \in LineSeqs, t \in {<<>>, LineEvent} :
             call = [fn |-> "read_ami", arg |-> [lines |-> ls, tail |-> t]]
       \/ \E ls \in LineSeqs, k \in LinkKeys, s \in Servers :
             call = [fn |-> "ResolveValue",
                     arg |-> [lines |-> ls, key |-> k, server_name |-> s]]
       \/ \E d \in DbLists, u \in SUBSET {"db1", "db2"} :
             call = [fn |-> "OpenPools", arg |-> [dbs |-> d, up |-> u]]

NextCalls ==
    \/ CallReadAmi
    \/ CallResolveValue
    \/ CallOpenPools

SpecCalls == InitCalls /\ [][NextCalls]_vars

(***************************************************************************)
(* Properties.                                                             *)
(***************************************************************************)
\* the message has an Event header
HasEventHeader(m) == <<"Event">> \in DOMAIN m.headers

\* the message a complete frame stands for
ParseFrame(f) == ReadAll(Flatten(f), FALSE)

\* the messages of the frames of x that carry an Event header, in order
EventFrames(x) ==
    SelectSeq([i \in 1..Len(x) |-> ParseFrame(x[i])], HasEventHeader)

\* the messages in the channel, consumed and logged that came from s, in order
BusOf(s) ==
    LET FromS(e) == e[1] = s
        q == SelectSeq(bus, FromS)
    IN [i \in 1..Len(q) |-> q[i][2]]

ConsumedOf(s) ==
    LET FromS(e) == e[1] = s
        q == SelectSeq(consumed, FromS)
    IN [i \in 1..Len(q) |-> q[i][2]]

LogOf(s) ==
    LET FromS(e) == e.server = s
        q == SelectSeq(log, FromS)
    IN [i \in 1..Len(q) |-> q[i].msg]

IsPrefix(a, b) == Len(a) <= Len(b) /\ SubSeq(b, 1, Len(a)) = a

\* the session of s has read everything its server sent and the stream is intact
CaughtUp(s) ==
    /\ pc[s] = "Streaming"
    /\ status[s] = "open"
    /\ wire[s] = <<>>
    /\ line[s] = <<>>
    /\ resp[s] = EmptyResponse

\* C1: whatever way the frames a server sends after the login are split over
\* the socket reads, each frame with an Event header gives exactly one message
\* on the channel, whole and in order: once a session has read all its server
\* sent, what it forwarded is the sequence of the event frames sent.
C1_EveryEventFrameForwarded ==
    \A s \in Servers : CaughtUp(s) => fwd[s] = EventFrames(emitted[s])

\* C2: per source, events are sent on the channel in the order they were read
\* and their log lines are appended in that order: what a source forwarded is
\* the events it read, in order; what was received from it followed by what is
\* still in the channel is what it forwarded; its log lines are a prefix of it.
C2_PerSourceOrder ==
    \A s \in Servers :
        /\ fwd[s] = SelectSeq(recvd[s], HasEventHeader)
        /\ ConsumedOf(s) \o BusOf(s) = fwd[s]
        /\ IsPrefix(LogOf(s), ConsumedOf(s))

\* two different events of one source have been logged
C2_Witness ==
    \E s \in Servers :
        /\ Len(LogOf(s)) >= 2
        /\ LogOf(s)[1] # LogOf(s)[2]

\* C3: every message in the channel or taken from it has an Event header (and
\* so at least one header), the lookup of line 262 never fails, and a session
\* forwards exactly the frames it read that have one.
C3_OnlyEventsOnBus ==
    /\ \A i \in 1..Len(bus) : HasEventHeader(bus[i][2])
    /\ \A i \in 1..Len(consumed) : HasEventHeader(consumed[i][2])
    /\ panicCause # "no_event"
    /\ \A s \in Servers :
          \A i \in 1..Len(fwd[s]) : HasEventHeader(fwd[s][i])

\* a session has read a frame with headers but no Event header, and has an
\* event in the channel
C3_Witness ==
    \E s \in Servers :
        /\ \E i \in 1..Len(recvd[s]) :
              /\ ~HasEventHeader(recvd[s][i])
              /\ DOMAIN recvd[s][i].headers # {}
        /\ BusOf(s) # <<>>

\* the first frame read was the banner; the reply read accepted the login
BannerSeen(h) == h.step = "first_response" /\ h.resp.rest = Banner

SuccessSeen(h) ==
    /\ h.step = "login_response"
    /\ <<"Response">> \in DOMAIN h.resp.headers
    /\ h.resp.headers[<<"Response">>] = <<"Success">>

\* C4: a session that streams or has forwarded an event has connected, read
\* the banner, written the login and read a Response: Success reply, in this
\* order; a session that read another first frame, or a reply without
\* Response: Success, is terminated and has forwarded nothing.
C4_HandshakeFirst ==
    \A s \in Servers :
        /\ (pc[s] = "Streaming" \/ fwd[s] # <<>>) =>
              /\ Len(hs[s]) = 4
              /\ hs[s][1].step = "connect"
              /\ BannerSeen(hs[s][2])
              /\ hs[s][3].step = "login"
              /\ SuccessSeen(hs[s][4])
        /\ (Len(hs[s]) >= 2 /\ ~BannerSeen(hs[s][2])) =>
              /\ pc[s] = "Terminated"
              /\ fwd[s] = <<>>
              /\ Len(hs[s]) = 2
        /\ (Len(hs[s]) >= 4 /\ ~SuccessSeen(hs[s][4])) =>
              /\ pc[s] = "Terminated"
              /\ fwd[s] = <<>>

\* one session has forwarded an event, another read a login reply without a
\* Response header and is terminated
C4_Witness ==
    \E s, t \in Servers :
        /\ fwd[s] # <<>>
        /\ Len(hs[t]) = 4
        /\ <<"Response">> \notin DOMAIN hs[t][4].resp.headers
        /\ pc[t] = "Terminated"

\* C5: a session that has read from a failed stream inside its loop (an
\* error, or 0 bytes at the end of the stream) has left the loop and is
\* terminated.
C5_DeadStreamTerminates ==
    \A s \in Servers : deadReads[s] > 0 => pc[s] = "Terminated"

\* what the session of t holds
SessionState(t) ==
    <<pc[t], resp[t], line[t], wire[t], status[t], emitted[t], recvd[t],
      fwd[t], hs[t], deadReads[t]>>

\* C6: the step in which a session is terminated by a connection failure (a
\* failed connect, a first frame that is not the banner, a failed or missing
\* login reply) changes nothing of any other session, of the channel or of
\* main; and with a session terminated, main in its loop can still take the
\* next event of the channel.
C6_FailureIsolation ==
    /\ [][\A s \in Servers :
            (pc[s] # "Terminated" /\ pc'[s] = "Terminated") =>
                /\ \A t \in Servers \ {s} : SessionState(t)' = SessionState(t)
                /\ UNCHANGED <<bus, mainVars>>]_vars
    /\ []((/\ \E s \in Servers : pc[s] = "Terminated"
            /\ mainPc = "Loop"
            /\ bus # <<>>) => ENABLED Aggregate)

\* one session is terminated without having logged in; the other streams and
\* an event of it is in the log
C6_Witness ==
    \E s, t \in Servers :
        /\ s # t
        /\ pc[s] = "Terminated"
        /\ Len(hs[s]) < 4 \/ ~SuccessSeen(hs[s][4])
        /\ pc[t] = "Streaming"
        /\ LogOf(t) # <<>>

\* the statements executed for clause i and the n-th event received
InsertsOf(n, i) ==
    {k \in 1..Len(dbLog) : dbLog[k].ev = n /\ dbLog[k].clause = i}

\* the n-th event received has a line in the log
Logged(n) == \E k \in 1..Len(log) : log[k].ev = n

\* main stopped on a failure of the file system
FilesystemPanic ==
    mainPc = "Panicked" /\ panicCause \in {"open_file", "no_file", "write_all"}

\* main stopped at line 264, the clause's database having no pool
NoPoolPanic == mainPc = "Panicked" /\ panicCause = "no_pool"

\* C7: a failure of the database while a statement is run never stops main,
\* and for every event received each matching clause has had its statement
\* executed and the log line is written, whichever of these statements failed
\* (unless the file system failed on that event, or a database had no pool).
C7_DbFailureAbsorbed ==
    /\ panicCause # "get_conn"
    /\ \A n \in 1..Len(consumed) :
          \/ n = Len(consumed) /\ (FilesystemPanic \/ NoPoolPanic)
          \/ /\ \A i \in MatchingClauses(consumed[n][2]) : InsertsOf(n, i) # {}
             /\ Logged(n)

\* C8: for every event received and every clause, one statement is executed
\* when the clause's event_name is the value of the Event header, letter for
\* letter, and none otherwise; the statement goes to the clause's own
\* database and carries the values built for that clause (an event on which
\* main stopped for a database without a pool is left aside).
C8_OneInsertPerMatchingClause ==
    \A n \in 1..Len(consumed) : \A i \in Rules :
        LET m == consumed[n][2]
            c == event_clauses[i]
        IN \/ n = Len(consumed) /\ NoPoolPanic
           \/ /\ Cardinality(InsertsOf(n, i)) =
                    IF HasEventHeader(m) /\ c.event_name = m.headers[<<"Event">>]
                    THEN 1 ELSE 0
              /\ \A k \in InsertsOf(n, i) :
                    /\ dbLog[k].db = c.db_connection_id
                    /\ Len(dbLog[k].values) = Len(c.event_data_link)

\* the columns of a link in the order given
ColumnsOf(link) == [j \in 1..Len(link) |-> link[j][2]]

\* the statement of the first clause with its columns as declared, and reversed
CallsDeclared ==
    <<"INSERT INTO ", "calls", " (", "server_col", ",", "chan_col",
      ") VALUES (", "?", ",", "?", ")">>

CallsReversed ==
    <<"INSERT INTO ", "calls", " (", "chan_col", ",", "server_col",
      ") VALUES (", "?", ",", "?", ")">>

Placeholders(sql) == Cardinality({j \in 1..Len(sql) : sql[j] = "?"})

C10_ColumnsPlaceholdersValues ==
    \A k \in 1..Len(dbLog) :
        LET e == dbLog[k]
            link == event_clauses[e.clause].event_data_link
            server_name == consumed[e.ev][1]
            m == consumed[e.ev][2]
        IN /\ Len(e.columns) = Len(link)
           /\ Len(e.values) = Len(link)
           /\ Placeholders(e.sql) = Len(link)
           /\ {e.columns[j] : j \in 1..Len(e.columns)} =
                 {link[d][2] : d \in 1..Len(link)}
           /\ \A j \in 1..Len(e.columns) :
                 \E d \in 1..Len(link) :
                    /\ link[d][2] = e.columns[j]
                    /\ e.values[j] =
                          IF link[d][1] \in DOMAIN m.headers
                          THEN <<"Bytes", m.headers[link[d][1]]>>
                          ELSE IF link[d][1] = SERVER_NAME
                               THEN <<"Bytes", <<server_name>>>>
                               ELSE <<"NULL">>

\* a statement was executed with NULL for a header the message lacks, and
\* another with two columns
C10_Witness ==
    /\ \E k \in 1..Len(dbLog) :
          /\ dbLog[k].columns = <<"cause_col">>
          /\ dbLog[k].values = <<<<"NULL">>>>
          /\ <<"Cause">> \notin DOMAIN consumed[dbLog[k].ev][2].headers
    /\ \E k \in 1..Len(dbLog) : Len(dbLog[k].values) = 2

\* the message read_ami returns for the frame of the call
CallMessage == ReadAll(FrameBytes(call.arg.lines), FALSE)

\* C11: the value bound for the source field %SERVER_NAME% is the name of the
\* server the message came from, whatever headers the message has, also one
\* named %SERVER_NAME%; for any other source field it is the header's value,
\* or NULL when the message lacks the header.
C11_ServerNameIsIdentity ==
    (call.fn = "ResolveValue" /\ ret # <<>>) =>
        IF call.arg.key = SERVER_NAME
        THEN ret[1] = <<"Bytes", <<call.arg.server_name>>>>
        ELSE ret[1] = IF call.arg.key \in DOMAIN CallMessage.headers
                      THEN <<"Bytes", CallMessage.headers[call.arg.key]>>
                      ELSE <<"NULL">>

\* the path of the file named for day d that records of server s belong in
FileOf(s, d) ==
    IF directory_per_server
    THEN <<target_directory, s, FileName(d)>>
    ELSE <<target_directory, FileName(d)>>

\* C12: every record is appended to the file named for the day its event's
\* rotation check (line 320) observed, in the directory of the event's own
\* server when directory_per_server is set and in the target directory
\* otherwise.
C12_RecordInFileOfItsDay ==
    \A k \in 1..Len(log) : log[k].path = FileOf(log[k].server, log[k].day)

\* two entries of dbs have the same id
DuplicateIds(dbs) ==
    \E i, j \in 1..Len(dbs) : i < j /\ dbs[i].id = dbs[j].id

\* C13: with every database reachable, the start aborts (the return of line
\* 205) exactly when two entries of the configuration have the same id,
\* whatever their hosts; a pool is never replaced by the pool of a later entry
\* with the same id.
C13_DuplicateIdsAbort ==
    (call.fn = "OpenPools" /\ ret # <<>> /\ call.arg.up = {"db1", "db2"}) =>
        ret[1].exit = DuplicateIds(call.arg.dbs)

\* an unwrap() on a file system operation failed: create_dir_all (lines 193,
\* 239), open_file (146), the handle looked up (340, 342), write_all (356)
FilesystemFailed ==
    panicCause \in {"create_dir_all", "open_file", "no_file", "write_all"}

\* C14: once a file system operation has failed main is gone: the event it
\* failed on has no record while every event before it has one, and from then
\* on no event is received, no statement is executed, no record is appended
\* and no handle is opened; and while main is in its loop with an event
\* processed, the handle of every server is in the map.
C14_FilesystemFailureFatal ==
    /\ [](FilesystemFailed =>
            /\ mainPc = "Panicked"
            /\ panicCause # "create_dir_all" =>
                  /\ consumed # <<>>
                  /\ ~Logged(Len(consumed))
                  /\ \A n \in 1..(Len(consumed) - 1) : Logged(n))
    /\ []((mainPc = "Loop" /\ consumed # <<>>) =>
            \A s \in Servers : FileKey(s) \in DOMAIN files)
    /\ [][FilesystemFailed => UNCHANGED <<bus, consumed, dbLog, log, files>>]_vars

\* main stopped on a file it could not open or write, an event it will never
\* receive is in the channel
C14_Witness ==
    /\ mainPc = "Panicked"
    /\ panicCause \in {"open_file", "write_all"}
    /\ bus # <<>>

\* a line with a colon: what is before its first colon and what is after it,
\* both without the blanks and line ends around them
HasColon(l) == \E p \in 1..Len(l) : l[p] = ":"
NoColon(l) == ~HasColon(l)
ColonAt(l) == CHOOSE p \in 1..Len(l) : l[p] = ":" /\ \A q \in 1..(p - 1) : l[q] # ":"
NameOf(l) == Trim(SubSeq(l, 1, ColonAt(l) - 1))
ValueOf(l) == Trim(SubSeq(l, ColonAt(l) + 1, Len(l)))

\* the headers a sequence of lines stands for: for each name the value of the
\* last line with that name
HeadersOf(ls) ==
    LET idx == {i \in 1..Len(ls) : HasColon(ls[i])}
        Last(k) == CHOOSE i \in idx :
                      /\ NameOf(ls[i]) = k
                      /\ \A j \in idx : NameOf(ls[j]) = k => j <= i
    IN [k \in {NameOf(ls[i]) : i \in idx} |-> ValueOf(ls[Last(k)])]

\* the lines without a colon, in order, with their line ends
BodyOf(ls) == Flatten(SelectSeq(ls, NoColon))

\* C15: for bytes holding one blank line "\r\n", read_ami(stream, false)
\* returns the headers of the lines before the blank line that have a colon
\* (split at the first colon, both parts trimmed, the last line of a name
\* giving its value) and as rest the lines before it that have none, in order
\* and with their line ends; the blank line and what follows it are in neither.
C15_ReadAmiFrame ==
    (call.fn = "read_ami" /\ ret # <<>>) =>
        /\ ret[1].headers = HeadersOf(call.arg.lines)
        /\ ret[1].rest = BodyOf(call.arg.lines)

\* read_ami returned for Event: Dial, a second Event line with blanks around
\* name and value, and a line without a colon, with more bytes after the
\* blank line
C15_Witness ==
    /\ call.fn = "read_ami"
    /\ call.arg.lines = <<LineEvent, LinePadded, LineText>>
    /\ call.arg.tail # <<>>
    /\ ret = <<[headers |-> [k \in {<<"Event">>} |-> <<"Hangup">>],
                rest |-> LineText]>>

\* the records of the n-th event received
RecordsOf(n) == {k \in 1..Len(log) : log[k].ev = n}

\* C16: every event sent on the channel is received once and gets exactly
\* one record: the records never outnumber the events sent, and an event that
\* was received has one record unless a file system operation failed on it.
\* (main handles an event in one step, so a received event without a record
\* is one that will never be written.)
C16_SentEventsWritten ==
    /\ Len(log) <= Len(consumed) + Len(bus)
    /\ \A n \in 1..Len(consumed) :
          \/ Cardinality(RecordsOf(n)) = 1
          \/ n = Len(consumed) /\ FilesystemFailed

\* C17: a session connects at most once, and Terminated is final: no step
\* brings a session back to Connecting, and no step changes anything of a
\* terminated session (its place, its handshake, its stream, what it read and
\* what it forwarded).
C17_TerminatedIsFinal ==
    /\ [](\A s \in Servers :
            Cardinality({i \in 1..Len(hs[s]) : hs[s][i].step = "connect"}) <= 1)
    /\ [][\A s \in Servers :
            /\ pc'[s] = "Connecting" => pc[s] = "Connecting"
            /\ pc[s] = "Terminated" => SessionState(s)' = SessionState(s)]_vars

\* a session whose connect failed is terminated while another has forwarded
\* an event that main has received
C17_Witness ==
    \E s, t \in Servers :
        /\ pc[s] = "Terminated"
        /\ hs[s] = <<>>
        /\ fwd[t] # <<>>
        /\ ConsumedOf(t) # <<>>

\* the names of the lines of ls that have a colon, as spelled
NamesOf(ls) == {NameOf(ls[i]) : i \in {j \in 1..Len(ls) : HasColon(ls[j])}}

\* C18 as stated: the names of the headers read_ami returns are in one letter
\* case, so that no two of them differ only in case, and a frame with an event
\* header in any spelling is forwarded like one spelled Event.
C18_NamesCaseNormalized ==
    (call.fn = "read_ami" /\ ret # <<>>) =>
        /\ \A a, b \in DOMAIN ret[1].headers : Fold(a) = Fold(b) => a = b
        /\ (\E a \in DOMAIN ret[1].headers : Fold(a) = <<"event">>) =>
              Forwardable(ret[1])

\* C18: the names of the headers read_ami returns are the trimmed names as
\* the lines spell them: lines whose names differ only in letter case give
\* one entry each, and the listener forwards the frame exactly when a line is
\* named Event in this very spelling.
C18_NamesKeptAsSpelled ==
    (call.fn = "read_ami" /\ ret # <<>>) =>
        /\ DOMAIN ret[1].headers = NamesOf(call.arg.lines)
        /\ \A a, b \in NamesOf(call.arg.lines) :
              (a # b /\ Fold(a) = Fold(b)) =>
                  /\ ret[1].headers[a] = HeadersOf(call.arg.lines)[a]
                  /\ ret[1].headers[b] = HeadersOf(call.arg.lines)[b]
        /\ Forwardable(ret[1]) <=> <<"Event">> \in NamesOf(call.arg.lines)

\* read_ami returned two entries, Event and event, each with its own value
C18_Witness ==
    /\ call.fn = "read_ami"
    /\ call.arg.lines = <<LineEvent, LineLower>>
    /\ ret # <<>>
    /\ DOMAIN ret[1].headers = {<<"Event">>, <<"event">>}
    /\ ret[1].headers[<<"Event">>] = <<"Dial">>
    /\ ret[1].headers[<<"event">>] = <<"Hangup">>

\* the keys the handle map has to hold
HandleKeys == IF directory_per_server THEN Servers ELSE {"all"}

\* the file name a handle was opened for
NameOfHandle(h) == h[Len(h)]

\* C19: once main has processed an event, and as long as it runs, the handle
\* map holds one handle for each configured server (directory_per_server) or
\* the one shared handle, every handle is open on the file named by the last
\* rotation (event_file_name) in the directory of its key, and none is left
\* from an earlier name.
C19_HandlesOfLastRotation ==
    (mainPc = "Loop" /\ consumed # <<>>) =>
        /\ DOMAIN files = HandleKeys
        /\ \A k \in DOMAIN files :
              /\ NameOfHandle(files[k]) = event_file_name
              /\ files[k] = IF directory_per_server
                            THEN <<target_directory, k, event_file_name>>
                            ELSE <<target_directory, event_file_name>>

\* two events were written on two days: the map was rotated twice and holds
\* the handles of the second day only
C19_Witness ==
    /\ mainPc = "Loop"
    /\ Len(log) = 2
    /\ NameOfHandle(log[1].path) # NameOfHandle(log[2].path)
    /\ directory_per_server
    /\ \A k \in DOMAIN files : NameOfHandle(files[k]) = NameOfHandle(log[2].path)

\* C20: while main is in its loop the database of every event clause has a
\* pool, also when a database could not be opened at startup, and main never
\* looks up a pool that is missing (line 264).
C20_EveryClauseHasPool ==
    /\ mainPc = "Loop" =>
          \A i \in Rules : event_clauses[i].db_connection_id \in mysql_pool
    /\ panicCause # "no_pool"

(***************************************************************************)
(* C21: main is never let out of its loop by a disconnected channel.       *)
(***************************************************************************)
\* every listener thread has ended
AllTerminated == \A s \in Servers : pc[s] = "Terminated"

\* main waits in recv with nothing to receive and no listener left to send
BlockedForGood == AllTerminated /\ mainPc = "Loop" /\ bus = <<>>

\* C21: while main is in its loop the channel is never disconnected, since
\* the sender main holds is alive; a step that takes main out of the loop is
\* the panic of an unwrap inside the loop, never the break of the Err arm of
\* recv, so the threads are never joined and main never returns from the
\* loop; and once every listener has ended and the channel is empty no step
\* of the program is possible any more: main stays blocked in recv and the
\* process is still there.
C21_NeverDisconnected ==
    /\ [](mainPc = "Loop" => ~Disconnected /\ "main" \in Senders)
    /\ [][mainPc = "Loop" =>
            \/ mainPc' = "Loop"
            \/ mainPc' = "Panicked" /\ panicCause' # "join"]_vars
    /\ [](BlockedForGood => ProcessAlive /\ ~ENABLED Next)

\* both listeners have ended, one refused at connect and one after it had
\* connected, and main is in its loop with an empty channel
C21_Witness ==
    /\ BlockedForGood
    /\ \E s, t \in Servers : hs[s] = <<>> /\ hs[t] # <<>>

====
